---------------------------- MODULE Spec2Model ----------------------------
(***************************************************************************)
(* A model of the finance bookkeeping service of src/app.py: three tables  *)
(* (User, Category, Transaction), bearer-token authentication, and the     *)
(* HTTP handlers as the threaded development server runs them.             *)
(*                                                                         *)
(* Conventions.  A table is a function from the ids in use to the rows.    *)
(* A text is a sequence of characters; a character is a one-character      *)
(* string, and a character that is not printable ASCII is written by its   *)
(* code point ("U+0967", "U+000B", "U+1D7D0"); tab, line feed, form feed   *)
(* and carriage return are also written "\t", "\n", "\f", "\r".            *)
(* A JSON value is a text, Str(t), or a whole number, Num(n).              *)
(* A JSON request body is a function from the field names present to       *)
(* their values, so a missing field is a name outside its DOMAIN.          *)
(* Amounts are whole numbers (SQLite stores a Float column as an 8-byte    *)
(* REAL, which returns a whole number of this size unchanged).             *)
(***************************************************************************)
EXTENDS Integers, Sequences, FiniteSets, Bags, TLC

(* ------------------------------- bounds ------------------------------- *)

\* The largest primary key a create may allocate in the Transaction and
\* Category tables (the tables themselves are unbounded).
MaxId == 2

\* The number of access tokens POST /login may issue in a run.
MaxTokens == 2

\* The number of requests that may be between their lookup and their commit
\* at the same time, each on a request thread of the development server.
MaxThreads == 2

(* --------------------------- program constants ------------------------ *)

\* app.config['JWT_SECRET_KEY']
JWT_SECRET_KEY == "uas-dpa"

\* datetime.MINYEAR and datetime.MAXYEAR as strptime('%Y') can produce them:
\* four digits, and year 0 is out of range.
MINYEAR == 1

(* --------------------------------- text -------------------------------- *)

\* The digits of ASCII, in order of value.
AsciiDigits == <<"0", "1", "2", "3", "4", "5", "6", "7", "8", "9">>

\* The decimal digits of the other scripts (Unicode 14.0, general category
\* Nd, as Python 3.11 knows them): one row per script, each in order of value,
\* from ARABIC-INDIC DIGIT ZERO..NINE to SEGMENTED DIGIT ZERO..NINE.
UnicodeDigits ==
   <<
      <<"U+0660", "U+0661", "U+0662", "U+0663", "U+0664", "U+0665", "U+0666", "U+0667", "U+0668", "U+0669">>,
      <<"U+06F0", "U+06F1", "U+06F2", "U+06F3", "U+06F4", "U+06F5", "U+06F6", "U+06F7", "U+06F8", "U+06F9">>,
      <<"U+07C0", "U+07C1", "U+07C2", "U+07C3", "U+07C4", "U+07C5", "U+07C6", "U+07C7", "U+07C8", "U+07C9">>,
      <<"U+0966", "U+0967", "U+0968", "U+0969", "U+096A", "U+096B", "U+096C", "U+096D", "U+096E", "U+096F">>,
      <<"U+09E6", "U+09E7", "U+09E8", "U+09E9", "U+09EA", "U+09EB", "U+09EC", "U+09ED", "U+09EE", "U+09EF">>,
      <<"U+0A66", "U+0A67", "U+0A68", "U+0A69", "U+0A6A", "U+0A6B", "U+0A6C", "U+0A6D", "U+0A6E", "U+0A6F">>,
      <<"U+0AE6", "U+0AE7", "U+0AE8", "U+0AE9", "U+0AEA", "U+0AEB", "U+0AEC", "U+0AED", "U+0AEE", "U+0AEF">>,
      <<"U+0B66", "U+0B67", "U+0B68", "U+0B69", "U+0B6A", "U+0B6B", "U+0B6C", "U+0B6D", "U+0B6E", "U+0B6F">>,
      <<"U+0BE6", "U+0BE7", "U+0BE8", "U+0BE9", "U+0BEA", "U+0BEB", "U+0BEC", "U+0BED", "U+0BEE", "U+0BEF">>,
      <<"U+0C66", "U+0C67", "U+0C68", "U+0C69", "U+0C6A", "U+0C6B", "U+0C6C", "U+0C6D", "U+0C6E", "U+0C6F">>,
      <<"U+0CE6", "U+0CE7", "U+0CE8", "U+0CE9", "U+0CEA", "U+0CEB", "U+0CEC", "U+0CED", "U+0CEE", "U+0CEF">>,
      <<"U+0D66", "U+0D67", "U+0D68", "U+0D69", "U+0D6A", "U+0D6B", "U+0D6C", "U+0D6D", "U+0D6E", "U+0D6F">>,
      <<"U+0DE6", "U+0DE7", "U+0DE8", "U+0DE9", "U+0DEA", "U+0DEB", "U+0DEC", "U+0DED", "U+0DEE", "U+0DEF">>,
      <<"U+0E50", "U+0E51", "U+0E52", "U+0E53", "U+0E54", "U+0E55", "U+0E56", "U+0E57", "U+0E58", "U+0E59">>,
      <<"U+0ED0", "U+0ED1", "U+0ED2", "U+0ED3", "U+0ED4", "U+0ED5", "U+0ED6", "U+0ED7", "U+0ED8", "U+0ED9">>,
      <<"U+0F20", "U+0F21", "U+0F22", "U+0F23", "U+0F24", "U+0F25", "U+0F26", "U+0F27", "U+0F28", "U+0F29">>,
      <<"U+1040", "U+1041", "U+1042", "U+1043", "U+1044", "U+1045", "U+1046", "U+1047", "U+1048", "U+1049">>,
      <<"U+1090", "U+1091", "U+1092", "U+1093", "U+1094", "U+1095", "U+1096", "U+1097", "U+1098", "U+1099">>,
      <<"U+17E0", "U+17E1", "U+17E2", "U+17E3", "U+17E4", "U+17E5", "U+17E6", "U+17E7", "U+17E8", "U+17E9">>,
      <<"U+1810", "U+1811", "U+1812", "U+1813", "U+1814", "U+1815", "U+1816", "U+1817", "U+1818", "U+1819">>,
      <<"U+1946", "U+1947", "U+1948", "U+1949", "U+194A", "U+194B", "U+194C", "U+194D", "U+194E", "U+194F">>,
      <<"U+19D0", "U+19D1", "U+19D2", "U+19D3", "U+19D4", "U+19D5", "U+19D6", "U+19D7", "U+19D8", "U+19D9">>,
      <<"U+1A80", "U+1A81", "U+1A82", "U+1A83", "U+1A84", "U+1A85", "U+1A86", "U+1A87", "U+1A88", "U+1A89">>,
      <<"U+1A90", "U+1A91", "U+1A92", "U+1A93", "U+1A94", "U+1A95", "U+1A96", "U+1A97", "U+1A98", "U+1A99">>,
      <<"U+1B50", "U+1B51", "U+1B52", "U+1B53", "U+1B54", "U+1B55", "U+1B56", "U+1B57", "U+1B58", "U+1B59">>,
      <<"U+1BB0", "U+1BB1", "U+1BB2", "U+1BB3", "U+1BB4", "U+1BB5", "U+1BB6", "U+1BB7", "U+1BB8", "U+1BB9">>,
      <<"U+1C40", "U+1C41", "U+1C42", "U+1C43", "U+1C44", "U+1C45", "U+1C46", "U+1C47", "U+1C48", "U+1C49">>,
      <<"U+1C50", "U+1C51", "U+1C52", "U+1C53", "U+1C54", "U+1C55", "U+1C56", "U+1C57", "U+1C58", "U+1C59">>,
      <<"U+A620", "U+A621", "U+A622", "U+A623", "U+A624", "U+A625", "U+A626", "U+A627", "U+A628", "U+A629">>,
      <<"U+A8D0", "U+A8D1", "U+A8D2", "U+A8D3", "U+A8D4", "U+A8D5", "U+A8D6", "U+A8D7", "U+A8D8", "U+A8D9">>,
      <<"U+A900", "U+A901", "U+A902", "U+A903", "U+A904", "U+A905", "U+A906", "U+A907", "U+A908", "U+A909">>,
      <<"U+A9D0", "U+A9D1", "U+A9D2", "U+A9D3", "U+A9D4", "U+A9D5", "U+A9D6", "U+A9D7", "U+A9D8", "U+A9D9">>,
      <<"U+A9F0", "U+A9F1", "U+A9F2", "U+A9F3", "U+A9F4", "U+A9F5", "U+A9F6", "U+A9F7", "U+A9F8", "U+A9F9">>,
      <<"U+AA50", "U+AA51", "U+AA52", "U+AA53", "U+AA54", "U+AA55", "U+AA56", "U+AA57", "U+AA58", "U+AA59">>,
      <<"U+ABF0", "U+ABF1", "U+ABF2", "U+ABF3", "U+ABF4", "U+ABF5", "U+ABF6", "U+ABF7", "U+ABF8", "U+ABF9">>,
      <<"U+FF10", "U+FF11", "U+FF12", "U+FF13", "U+FF14", "U+FF15", "U+FF16", "U+FF17", "U+FF18", "U+FF19">>,
      <<"U+104A0", "U+104A1", "U+104A2", "U+104A3", "U+104A4", "U+104A5", "U+104A6", "U+104A7", "U+104A8", "U+104A9">>,
      <<"U+10D30", "U+10D31", "U+10D32", "U+10D33", "U+10D34", "U+10D35", "U+10D36", "U+10D37", "U+10D38", "U+10D39">>,
      <<"U+11066", "U+11067", "U+11068", "U+11069", "U+1106A", "U+1106B", "U+1106C", "U+1106D", "U+1106E", "U+1106F">>,
      <<"U+110F0", "U+110F1", "U+110F2", "U+110F3", "U+110F4", "U+110F5", "U+110F6", "U+110F7", "U+110F8", "U+110F9">>,
      <<"U+11136", "U+11137", "U+11138", "U+11139", "U+1113A", "U+1113B", "U+1113C", "U+1113D", "U+1113E", "U+1113F">>,
      <<"U+111D0", "U+111D1", "U+111D2", "U+111D3", "U+111D4", "U+111D5", "U+111D6", "U+111D7", "U+111D8", "U+111D9">>,
      <<"U+112F0", "U+112F1", "U+112F2", "U+112F3", "U+112F4", "U+112F5", "U+112F6", "U+112F7", "U+112F8", "U+112F9">>,
      <<"U+11450", "U+11451", "U+11452", "U+11453", "U+11454", "U+11455", "U+11456", "U+11457", "U+11458", "U+11459">>,
      <<"U+114D0", "U+114D1", "U+114D2", "U+114D3", "U+114D4", "U+114D5", "U+114D6", "U+114D7", "U+114D8", "U+114D9">>,
      <<"U+11650", "U+11651", "U+11652", "U+11653", "U+11654", "U+11655", "U+11656", "U+11657", "U+11658", "U+11659">>,
      <<"U+116C0", "U+116C1", "U+116C2", "U+116C3", "U+116C4", "U+116C5", "U+116C6", "U+116C7", "U+116C8", "U+116C9">>,
      <<"U+11730", "U+11731", "U+11732", "U+11733", "U+11734", "U+11735", "U+11736", "U+11737", "U+11738", "U+11739">>,
      <<"U+118E0", "U+118E1", "U+118E2", "U+118E3", "U+118E4", "U+118E5", "U+118E6", "U+118E7", "U+118E8", "U+118E9">>,
      <<"U+11950", "U+11951", "U+11952", "U+11953", "U+11954", "U+11955", "U+11956", "U+11957", "U+11958", "U+11959">>,
      <<"U+11C50", "U+11C51", "U+11C52", "U+11C53", "U+11C54", "U+11C55", "U+11C56", "U+11C57", "U+11C58", "U+11C59">>,
      <<"U+11D50", "U+11D51", "U+11D52", "U+11D53", "U+11D54", "U+11D55", "U+11D56", "U+11D57", "U+11D58", "U+11D59">>,
      <<"U+11DA0", "U+11DA1", "U+11DA2", "U+11DA3", "U+11DA4", "U+11DA5", "U+11DA6", "U+11DA7", "U+11DA8", "U+11DA9">>,
      <<"U+16A60", "U+16A61", "U+16A62", "U+16A63", "U+16A64", "U+16A65", "U+16A66", "U+16A67", "U+16A68", "U+16A69">>,
      <<"U+16AC0", "U+16AC1", "U+16AC2", "U+16AC3", "U+16AC4", "U+16AC5", "U+16AC6", "U+16AC7", "U+16AC8", "U+16AC9">>,
      <<"U+16B50", "U+16B51", "U+16B52", "U+16B53", "U+16B54", "U+16B55", "U+16B56", "U+16B57", "U+16B58", "U+16B59">>,
      <<"U+1D7CE", "U+1D7CF", "U+1D7D0", "U+1D7D1", "U+1D7D2", "U+1D7D3", "U+1D7D4", "U+1D7D5", "U+1D7D6", "U+1D7D7">>,
      <<"U+1D7D8", "U+1D7D9", "U+1D7DA", "U+1D7DB", "U+1D7DC", "U+1D7DD", "U+1D7DE", "U+1D7DF", "U+1D7E0", "U+1D7E1">>,
      <<"U+1D7E2", "U+1D7E3", "U+1D7E4", "U+1D7E5", "U+1D7E6", "U+1D7E7", "U+1D7E8", "U+1D7E9", "U+1D7EA", "U+1D7EB">>,
      <<"U+1D7EC", "U+1D7ED", "U+1D7EE", "U+1D7EF", "U+1D7F0", "U+1D7F1", "U+1D7F2", "U+1D7F3", "U+1D7F4", "U+1D7F5">>,
      <<"U+1D7F6", "U+1D7F7", "U+1D7F8", "U+1D7F9", "U+1D7FA", "U+1D7FB", "U+1D7FC", "U+1D7FD", "U+1D7FE", "U+1D7FF">>,
      <<"U+1E140", "U+1E141", "U+1E142", "U+1E143", "U+1E144", "U+1E145", "U+1E146", "U+1E147", "U+1E148", "U+1E149">>,
      <<"U+1E2F0", "U+1E2F1", "U+1E2F2", "U+1E2F3", "U+1E2F4", "U+1E2F5", "U+1E2F6", "U+1E2F7", "U+1E2F8", "U+1E2F9">>,
      <<"U+1E950", "U+1E951", "U+1E952", "U+1E953", "U+1E954", "U+1E955", "U+1E956", "U+1E957", "U+1E958", "U+1E959">>,
      <<"U+1FBF0", "U+1FBF1", "U+1FBF2", "U+1FBF3", "U+1FBF4", "U+1FBF5", "U+1FBF6", "U+1FBF7", "U+1FBF8", "U+1FBF9">>
   >>

Range(s) == {s[i] : i \in DOMAIN s}

\* [0-9] in a regular expression.
Digits == Range(AsciiDigits)

\* \d in a regular expression on str, and the digits int() and float() read:
\* the decimal digits of every script.
DecimalDigits == Digits \cup UNION {Range(row) : row \in Range(UnicodeDigits)}

\* The first of a set of places, or 0 when there is none.
PlaceIn(places) == IF places = {} THEN 0 ELSE CHOOSE i \in places : TRUE

\* The place of a character in its script's row of digits (1 for a zero, 10
\* for a nine), or 0 when it is no decimal digit.
DigitPlace(c) ==
    IF c \in Digits
    THEN CHOOSE i \in 1..10 : AsciiDigits[i] = c
    ELSE PlaceIn({i \in 1..10 : \E row \in Range(UnicodeDigits) : row[i] = c})

\* c \in DecimalDigits.
IsDecimalDigit(c) == DigitPlace(c) > 0

\* The value of a decimal digit.
DigitVal(c) == DigitPlace(c) - 1

DigitChar(n) == AsciiDigits[n + 1]

\* The number a sequence of decimal digits denotes.
RECURSIVE NumVal(_)
NumVal(s) ==
    IF s = <<>> THEN 0
    ELSE 10 * NumVal(SubSeq(s, 1, Len(s) - 1)) + DigitVal(s[Len(s)])

\* The decimal digits of n >= 0, without padding.
RECURSIVE NumText(_)
NumText(n) ==
    IF n < 10 THEN <<DigitChar(n)>>
    ELSE NumText(n \div 10) \o <<DigitChar(n % 10)>>

\* str(n) of an int.
IntText(n) == IF n < 0 THEN <<"-">> \o NumText(-n) ELSE NumText(n)

\* s in at least w characters, zero-filled on the left.
RECURSIVE ZeroPad(_, _)
ZeroPad(s, w) == IF Len(s) >= w THEN s ELSE ZeroPad(<<"0">> \o s, w)

\* The blanks int() and float() ignore around a number: the white space of
\* ASCII (tab, line feed, vertical tab, form feed, carriage return, space)
\* and of Unicode (NEXT LINE, NO-BREAK SPACE, OGHAM SPACE MARK, EN QUAD to
\* HAIR SPACE, LINE and PARAGRAPH SEPARATOR, NARROW NO-BREAK SPACE, MEDIUM
\* MATHEMATICAL SPACE, IDEOGRAPHIC SPACE).
Blanks ==
    {"\t", "\n", "\f", "\r", " ",
     "U+0009", "U+000A", "U+000B", "U+000C", "U+000D", "U+0020",
     "U+0085", "U+00A0", "U+1680",
     "U+2000", "U+2001", "U+2002", "U+2003", "U+2004", "U+2005",
     "U+2006", "U+2007", "U+2008", "U+2009", "U+200A",
     "U+2028", "U+2029", "U+202F", "U+205F", "U+3000"}

\* The text without the blanks at its two ends.
RECURSIVE Strip(_)
Strip(s) ==
    IF s = <<>> THEN s
    ELSE IF Head(s) \in Blanks THEN Strip(Tail(s))
    ELSE IF s[Len(s)] \in Blanks THEN Strip(SubSeq(s, 1, Len(s) - 1))
    ELSE s

\* A "+" or "-" the text begins with, and the text after it.
Sign(s) == IF s # <<>> /\ Head(s) = "-" THEN -1 ELSE 1
Unsigned(s) == IF s # <<>> /\ Head(s) \in {"+", "-"} THEN Tail(s) ELSE s

\* Digits of a numeric literal: decimal digits, with single underscores
\* allowed between two of them.
IsDigitPart(s) ==
    /\ s # <<>>
    /\ \A i \in DOMAIN s : s[i] = "_" \/ IsDecimalDigit(s[i])
    /\ s[1] # "_" /\ s[Len(s)] # "_"
    /\ \A i \in 1..(Len(s) - 1) : ~(s[i] = "_" /\ s[i + 1] = "_")

\* The text without its underscores.
RECURSIVE NoUnderscores(_)
NoUnderscores(s) ==
    IF s = <<>> THEN s
    ELSE IF Head(s) = "_" THEN NoUnderscores(Tail(s))
    ELSE <<Head(s)>> \o NoUnderscores(Tail(s))

\* int(text): blanks around it, a sign, and digits.  ok = FALSE is the
\* ValueError.
IntOfText(s) ==
    LET body == Unsigned(Strip(s))
    IN  IF IsDigitPart(body)
        THEN [ok |-> TRUE, value |-> Sign(Strip(s)) * NumVal(NoUnderscores(body))]
        ELSE [ok |-> FALSE, value |-> 0]

\* The letters of a text in lower case, as far as "inf", "infinity" and "nan"
\* have them.
Lower(s) ==
    [i \in DOMAIN s |->
        CASE s[i] = "I" -> "i" [] s[i] = "N" -> "n" [] s[i] = "F" -> "f"
          [] s[i] = "A" -> "a" [] s[i] = "T" -> "t" [] s[i] = "Y" -> "y"
          [] OTHER -> s[i]]

\* The part of a float literal before the exponent: digits, digits with a
\* point in or around them.
IsMantissa(s) ==
    \/ IsDigitPart(s)
    \/ \E k \in DOMAIN s :
          LET whole == SubSeq(s, 1, k - 1)
              frac  == SubSeq(s, k + 1, Len(s))
          IN  /\ s[k] = "."
              /\ whole = <<>> \/ IsDigitPart(whole)
              /\ frac = <<>> \/ IsDigitPart(frac)
              /\ whole # <<>> \/ frac # <<>>

\* What float() reads as a number, sign and blanks apart.
IsFloatLiteral(s) ==
    \/ Lower(s) \in {<<"i", "n", "f">>, <<"n", "a", "n">>,
                     <<"i", "n", "f", "i", "n", "i", "t", "y">>}
    \/ IsMantissa(s)
    \/ \E k \in DOMAIN s :
          /\ s[k] \in {"e", "E"}
          /\ IsMantissa(SubSeq(s, 1, k - 1))
          /\ IsDigitPart(Unsigned(SubSeq(s, k + 1, Len(s))))

RECURSIVE Pow10(_)
Pow10(n) == IF n = 0 THEN 1 ELSE 10 * Pow10(n - 1)

\* The place of the exponent mark of a float literal, or the place after
\* its end.
ExponentAt(s) ==
    IF \E k \in DOMAIN s : s[k] \in {"e", "E"}
    THEN CHOOSE k \in DOMAIN s : s[k] \in {"e", "E"}
    ELSE Len(s) + 1

\* The place of the point of a float literal whose mantissa ends before e,
\* or e.
PointAt(s, e) ==
    IF \E k \in DOMAIN s : s[k] = "."
    THEN CHOOSE k \in DOMAIN s : s[k] = "."
    ELSE e

\* digits * 10^shift, and whether that is a whole number.
Scaled(digits, shift) ==
    IF shift >= 0
    THEN [whole |-> TRUE, value |-> digits * Pow10(shift)]
    ELSE [whole |-> digits % Pow10(-shift) = 0, value |-> digits \div Pow10(-shift)]

\* The number a float literal denotes, its point at p and its exponent mark
\* at e: <whole>.<frac>e<exp> is <whole><frac> * 10^(exp - len(frac)).
FloatAt(s, e, p) ==
    Scaled(NumVal(NoUnderscores(SubSeq(s, 1, p - 1) \o SubSeq(s, p + 1, e - 1))),
           (IF e > Len(s) THEN 0 ELSE IntOfText(SubSeq(s, e + 1, Len(s))).value)
              - Len(NoUnderscores(SubSeq(s, p + 1, e - 1))))

FloatValue(s) == FloatAt(s, ExponentAt(s), PointAt(s, ExponentAt(s)))

\* The float of a literal that begins with `first` and denotes `number`.  The
\* numbers of the model are the whole ones: on a literal that is inf, nan or
\* a number with a fraction the model says nothing.
FloatOfNumber(sign, first, number) ==
    CASE (first = "." \/ IsDecimalDigit(first)) /\ number.whole ->
            [ok |-> TRUE, value |-> sign * number.value]

\* float() of a text without blanks and sign.  A text float() does not read
\* is the ValueError (ok = FALSE).
FloatOfLiteral(sign, body) ==
    IF ~IsFloatLiteral(body) THEN [ok |-> FALSE, value |-> 0]
    ELSE FloatOfNumber(sign, body[1], FloatValue(body))

\* float(text): blanks around it, a sign, and a float literal.
FloatOfText(s) == FloatOfLiteral(Sign(Strip(s)), Unsigned(Strip(s)))

(* ------------------------------ date text ------------------------------ *)

\* _strptime's regular expression for %Y: \d\d\d\d.
MatchesYear(s) == Len(s) = 4 /\ \A i \in 1..4 : IsDecimalDigit(s[i])

\* _strptime's regular expression for %m: 1[0-2] | 0[1-9] | [1-9].
MatchesMonth(s) ==
    \/ Len(s) = 2 /\ s[1] = "1" /\ s[2] \in {"0", "1", "2"}
    \/ Len(s) = 2 /\ s[1] = "0" /\ s[2] \in Digits \ {"0"}
    \/ Len(s) = 1 /\ s[1] \in Digits \ {"0"}

\* _strptime's regular expression for %d:
\* 3[0-1] | [1-2]\d | 0[1-9] | [1-9] | " "[1-9].
MatchesDay(s) ==
    \/ Len(s) = 2 /\ s[1] = "3" /\ s[2] \in {"0", "1"}
    \/ Len(s) = 2 /\ s[1] \in {"1", "2"} /\ IsDecimalDigit(s[2])
    \/ Len(s) = 2 /\ s[1] \in {"0", " "} /\ s[2] \in Digits \ {"0"}
    \/ Len(s) = 1 /\ s[1] \in Digits \ {"0"}

\* The value of a day field that matched: a leading space counts as nothing.
DayVal(s) == IF s[1] = " " THEN DigitVal(s[2]) ELSE NumVal(s)

IsLeap(y) == (y % 4 = 0) /\ ((y % 100 # 0) \/ (y % 400 = 0))

DaysInMonth(y, m) ==
    IF m = 2 THEN (IF IsLeap(y) THEN 29 ELSE 28)
    ELSE IF m \in {4, 6, 9, 11} THEN 30 ELSE 31

\* The date of three numbers that matched, if they form a calendar date;
\* ok = FALSE is the ValueError.
DateOf(y, m, d) ==
    [ok   |-> y >= MINYEAR /\ d <= DaysInMonth(y, m),
     date |-> [year |-> y, month |-> m, day |-> d]]

\* The date of a text whose second dash is at one of `cuts`.
StrptimeCut(s, cuts) ==
    IF cuts = {} THEN [ok |-> FALSE, date |-> [year |-> 0, month |-> 0, day |-> 0]]
    ELSE DateOf(NumVal(SubSeq(s, 1, 4)),
                NumVal(SubSeq(s, 6, PlaceIn(cuts) - 1)),
                DayVal(SubSeq(s, PlaceIn(cuts) + 1, Len(s))))

\* datetime.datetime.strptime(date_str, '%Y-%m-%d').date(): the whole text must
\* match <year>-<month>-<day> (neither the month nor the day pattern matches a
\* dash, so the second dash is the 7th or the 8th character), and the three
\* numbers, which int() reads, must form a calendar date.  ok = FALSE is the
\* ValueError.
Strptime(s) ==
    StrptimeCut(s, {j \in {7, 8} :
                       /\ Len(s) > j
                       /\ s[5] = "-" /\ s[j] = "-"
                       /\ MatchesYear(SubSeq(s, 1, 4))
                       /\ MatchesMonth(SubSeq(s, 6, j - 1))
                       /\ MatchesDay(SubSeq(s, j + 1, Len(s)))})

\* date.strftime('%Y-%m-%d').  %m and %d are always two digits.  %Y is the C
\* library's: glibc writes a year below 1000 without leading zeros, other
\* platforms (and CPython from 3.13 on) zero-fill it to four digits; `fill`
\* says which of the two the build does.
Strftime(d, fill) ==
    (IF fill THEN ZeroPad(NumText(d.year), 4) ELSE NumText(d.year))
        \o <<"-">> \o ZeroPad(NumText(d.month), 2)
        \o <<"-">> \o ZeroPad(NumText(d.day), 2)

(* ------------------------------- currency ------------------------------ *)

\* The digits of n >= 0 with a "." before every group of three, as
\* locale.format_string(grouping=True) writes them under id_ID.
RECURSIVE Grouped(_)
Grouped(n) ==
    IF n < 1000 THEN NumText(n)
    ELSE Grouped(n \div 1000) \o <<".">> \o ZeroPad(NumText(n % 1000), 3)

\* locale.currency(amount, grouping=True) under the id_ID locale, for an
\* amount in whole rupiah: the sign of a negative amount, "Rp", the grouped
\* digits, "," and two decimals.
Currency(amount) ==
    (IF amount < 0 THEN <<"-">> ELSE <<>>)
        \o <<"R", "p">> \o Grouped(IF amount < 0 THEN -amount ELSE amount)
        \o <<",", "0", "0">>

(* ------------------------------- requests ------------------------------ *)

\* JSON values: a string and a whole number.
Str(text) == [str |-> text]
Num(n) == [num |-> n]
IsStr(v) == DOMAIN v = {"str"}

\* type=str, type=int and type=float of a parser argument, applied to the
\* value of the field: str(value), int(value), float(value).  ok = FALSE is
\* the exception the conversion raises.
ConvertStr(v)   == [ok |-> TRUE, value |-> IF IsStr(v) THEN v.str ELSE IntText(v.num)]
ConvertInt(v)   == IF IsStr(v) THEN IntOfText(v.str) ELSE [ok |-> TRUE, value |-> v.num]
ConvertFloat(v) == IF IsStr(v) THEN FloatOfText(v.str) ELSE [ok |-> TRUE, value |-> v.num]

Convert(type, v) ==
    CASE type = "str"   -> ConvertStr(v)
      [] type = "int"   -> ConvertInt(v)
      [] type = "float" -> ConvertFloat(v)

\* The id of a request on a collection route (/transactions, /categories):
\* the handler's parameter keeps its default, None.
NoId == -1

\* A request body with no field.
NoBody == [f \in {} |-> 0]

Response(status, body) == [status |-> status, body |-> body]

Message(text) == [message |-> text]

\* The arguments of a parser, each with the conversion of the body's value
\* to its type, or with ok = FALSE when the body lacks it.
Converted(parser, body) ==
    [i \in 1..Len(parser) |->
        IF parser[i].name \in DOMAIN body
        THEN Convert(parser[i].type, body[parser[i].name])
        ELSE [ok |-> FALSE, value |-> 0]]

\* The outcome of a parse whose conversions are `converted`.
Parsed(parser, converted) ==
    IF \A i \in 1..Len(parser) : converted[i].ok
    THEN [ok   |-> TRUE,
          resp |-> Response(0, NoBody),
          args |-> [n \in {parser[i].name : i \in 1..Len(parser)} |->
                      converted[CHOOSE k \in 1..Len(parser) : parser[k].name = n].value]]
    ELSE LET i == CHOOSE k \in 1..Len(parser) :
                     ~converted[k].ok /\ \A l \in 1..(k - 1) : converted[l].ok
         IN  [ok   |-> FALSE,
              resp |-> Response(400, Message((parser[i].name :> parser[i].help))),
              args |-> NoBody]

\* reqparse.RequestParser.parse_args: the arguments in the order they were
\* added, each converted to its type; the first required one that the body
\* lacks, or whose value does not convert, aborts the request with 400 and
\* {"message": {<name>: <help>}}.  args are the converted values.
ParseArgs(parser, body) == Parsed(parser, Converted(parser, body))

transaction_parser ==
    << [name |-> "description", type |-> "str",   help |-> "Description is required"],
       [name |-> "amount",      type |-> "float", help |-> "Amount is required"],
       [name |-> "category_id", type |-> "int",   help |-> "Category ID is required"],
       [name |-> "date",        type |-> "str",
        help |-> "Date is required (format: YYYY-MM-DD)"] >>

\* The parser CategoryResource.post and CategoryResource.put build.
category_parser == << [name |-> "name", type |-> "str", help |-> "Name is required"] >>

register_parser ==
    << [name |-> "username", type |-> "str", help |-> "Username is required"],
       [name |-> "password", type |-> "str", help |-> "Password is required"] >>

login_parser == register_parser

(* ----------------------------- authentication -------------------------- *)

\* A request without an Authorization header.
NoToken == [sub |-> 0, jti |-> 0, key |-> "none"]

\* create_access_token(identity=user.id): a token signed with the process's
\* secret, whose subject is the user's id; jti tells two tokens apart.
CreateAccessToken(identity, jti) == [sub |-> identity, jti |-> jti, key |-> JWT_SECRET_KEY]

\* A token signed with a key that is not the process's secret.
ForgedToken == [sub |-> 1, jti |-> 0, key |-> "not-the-secret"]

AuthOk == Response(0, NoBody)

\* @jwt_required(): the verification that runs before the handler's body.
\* Flask-JWT-Extended's default error handlers (the program registers none)
\* answer a missing header with 401, a token whose signature does not verify
\* with 422 and an expired token with 401 (app.run(debug=True) lets the
\* verification's exceptions through flask_restful to these handlers).
\* PyJWT checks the signature, then the expiry, then (from 2.10 on) that the
\* subject is a text: create_access_token(identity=user.id) at l.216 signs an
\* integer subject, which such a build refuses with 422.  AuthOk lets the
\* handler run.
JwtRequired(token, expiredTokens, verifySub) ==
    IF token.key = "none"
    THEN Response(401, [msg |-> "Missing Authorization Header"])
    ELSE IF token.key # JWT_SECRET_KEY
    THEN Response(422, [msg |-> "Signature verification failed"])
    ELSE IF token \in expiredTokens
    THEN Response(401, [msg |-> "Token has expired"])
    ELSE IF verifySub
    THEN Response(422, [msg |-> "Subject must be a string"])
    ELSE AuthOk

\* flask_bcrypt.generate_password_hash(password): the bcrypt hash of the
\* password under a fresh random salt; the hash text carries the salt.
\* flask_bcrypt refuses an empty password with a ValueError (ok = FALSE).
GeneratePasswordHash(password, salt) ==
    [ok   |-> password # <<>>,
     hash |-> [alg |-> "2b", salt |-> salt, digest |-> <<salt, password>>]]

\* flask_bcrypt.check_password_hash(pw_hash, password): hashes the candidate
\* under the stored hash's salt and compares the two hashes.
CheckPasswordHash(pw_hash, password) ==
    [alg |-> "2b", salt |-> pw_hash.salt, digest |-> <<pw_hash.salt, password>>] = pw_hash

(* ------------------------------ persistence ---------------------------- *)

Max(S) == CHOOSE m \in S : \A x \in S : x <= m

\* The key SQLite gives a row inserted into a table with an INTEGER PRIMARY
\* KEY column (no AUTOINCREMENT): one more than the largest key in use.
NextId(table) == IF DOMAIN table = {} THEN 1 ELSE Max(DOMAIN table) + 1

\* Model.query.get(id): the row of that id as the table holds it now, or
\* nothing.
NoRow == [f \in {} |-> 0]
QueryGet(table, id) == IF id \in DOMAIN table THEN table[id] ELSE NoRow

\* db.session of one request: the rows added, the rows loaded and their
\* attributes as assigned since, and the rows marked for deletion, none of
\* this written yet.
EmptySession ==
    [new |-> <<>>, loaded |-> [i \in {} |-> 0], dirty |-> [i \in {} |-> 0], deleted |-> {}]

SessionAdd(session, row) == [session EXCEPT !.new = Append(@, row)]

\* An object the session loaded from the table; its attributes are the row's.
SessionLoad(session, id, row) ==
    [session EXCEPT !.loaded = [i \in DOMAIN @ \cup {id} |-> IF i = id THEN row ELSE @[i]],
                    !.dirty  = [i \in DOMAIN @ \cup {id} |-> IF i = id THEN row ELSE @[i]]]

\* object.field = value on a loaded object.
SessionSet(session, id, field, value) ==
    [session EXCEPT !.dirty[id][field] = value]

SessionDelete(session, id) == [session EXCEPT !.deleted = @ \cup {id}]

\* The fields of a loaded object whose value is not the loaded one: the
\* columns the flush writes.
Changed(session, id) ==
    {f \in DOMAIN session.loaded[id] : session.dirty[id][f] # session.loaded[id][f]}

RECURSIVE InsertAll(_, _)
InsertAll(table, rows) ==
    IF rows = <<>> THEN table
    ELSE InsertAll([i \in DOMAIN table \cup {NextId(table)} |->
                        IF i \in DOMAIN table THEN table[i] ELSE Head(rows)],
                   Tail(rows))

\* unique=True of User.username: two rows of the table with one username.
UniqueViolated(table) ==
    \E i, j \in DOMAIN table :
        /\ i # j
        /\ "username" \in DOMAIN table[i] /\ "username" \in DOMAIN table[j]
        /\ table[i].username = table[j].username

\* db.session.commit(), against the table as it is when the commit runs.
\* The flush INSERTs the added rows, UPDATEs the changed columns of the
\* loaded rows by primary key, and DELETEs the marked rows by primary key.
\* An UPDATE that finds no row raises StaleDataError and an INSERT of a
\* taken username raises IntegrityError (ok = FALSE, nothing written); a
\* DELETE that finds no row is a warning only.
SessionCommit(table, session) ==
    LET updates  == {i \in DOMAIN session.loaded \ session.deleted :
                        Changed(session, i) # {}}
        updated  == [i \in DOMAIN table |->
                        IF i \in updates
                        THEN [f \in DOMAIN table[i] |->
                                IF f \in Changed(session, i)
                                THEN session.dirty[i][f] ELSE table[i][f]]
                        ELSE table[i]]
        inserted == InsertAll(updated, session.new)
        written  == [i \in DOMAIN inserted \ session.deleted |-> inserted[i]]
    IN  IF updates \subseteq DOMAIN table /\ ~UniqueViolated(inserted)
        THEN [ok |-> TRUE, table |-> written]
        ELSE [ok |-> FALSE, table |-> table]



\* The teardown Flask-SQLAlchemy registers at db = SQLAlchemy(app): at the end
\* of every request db.session.remove() closes the session, which rolls back
\* whatever it holds that was not committed.
SessionRemove(table, session) == table

\* How far a handler gets before it writes: it either returns a response
\* (commit = FALSE; what its session holds is never written) or it reaches
\* db.session.commit() with its session (commit = TRUE) and returns resp when
\* the commit has succeeded.
Return(resp, session) == [commit |-> FALSE, resp |-> resp, session |-> session]
Commit(resp, session) == [commit |-> TRUE, resp |-> resp, session |-> session]

\* The response of a request whose handler raised an exception (the text
\* stands for the server's error page).
ServerError == Response(500, Message("Internal Server Error"))

\* Python's truth value of a route's id parameter: None and 0 are false.
Truthy(id) == id # NoId /\ id # 0

\* The rows of a table as a list, in key order.
RECURSIVE Listing(_, _)
Listing(item(_), ids) ==
    IF ids = {} THEN <<>>
    ELSE LET i == CHOOSE k \in ids : \A l \in ids : k <= l
         IN  <<item(i)>> \o Listing(item, ids \ {i})

(* ------------------------- TransactionResource ------------------------- *)

TransactionItem(id, row, fill) ==
    [id          |-> id,
     description |-> row.description,
     amount      |-> row.amount,
     category_id |-> row.category_id,
     date        |-> Strftime(row.date, fill)]

\* GET /transactions and GET /transactions/<id>.  `fill` is the platform's
\* way of writing %Y (see Strftime).
TransactionGet(table, id, fill) ==
    IF Truthy(id)
    THEN IF QueryGet(table, id) # NoRow
         THEN Return(Response(200, TransactionItem(id, table[id], fill)), EmptySession)
         ELSE Return(Response(404, Message("Transaction not found")), EmptySession)
    ELSE Return(Response(200,
                    Listing(LAMBDA i : [TransactionItem(i, table[i], fill)
                                           EXCEPT !.amount = Currency(@)],
                            DOMAIN table)),
                EmptySession)

InvalidDate == Response(400, Message("Invalid date format. Please use YYYY-MM-DD format."))

\* POST /transactions after the date is parsed (l.91-99).
TransactionPostDated(args, date) ==
    IF ~date.ok THEN Return(InvalidDate, EmptySession)
    ELSE Commit(Response(201, Message("Transaction created successfully")),
                SessionAdd(EmptySession,
                           [description |-> args.description,
                            amount      |-> args.amount,
                            category_id |-> args.category_id,
                            date        |-> date.date]))

\* POST /transactions after parse_args (l.85-99).
TransactionPostParsed(parsed) ==
    IF ~parsed.ok THEN Return(parsed.resp, EmptySession)
    ELSE TransactionPostDated(parsed.args, Strptime(parsed.args.date))

\* POST /transactions.
TransactionPost(body) == TransactionPostParsed(ParseArgs(transaction_parser, body))

\* PUT /transactions/<id> after the date is parsed (l.112-120); `staged` is
\* the session with the three assignments made before.
TransactionPutDated(id, staged, date) ==
    IF ~date.ok THEN Return(InvalidDate, staged)
    ELSE Commit(Response(200, Message("Transaction updated successfully")),
                SessionSet(staged, id, "date", date.date))

\* PUT /transactions/<id> after parse_args (l.108-120); `session` holds the
\* row the lookup loaded.  The three assignments before the date is parsed
\* change the object in the request's session only; the commit is what
\* writes.
TransactionPutParsed(id, session, parsed) ==
    IF ~parsed.ok THEN Return(parsed.resp, session)
    ELSE TransactionPutDated(id,
             SessionSet(SessionSet(SessionSet(session,
                 id, "description", parsed.args.description),
                 id, "amount", parsed.args.amount),
                 id, "category_id", parsed.args.category_id),
             Strptime(parsed.args.date))

\* A PUT that validates the body before it looks the row up.
PutValidatedFirst(table, id, parsed) ==
    IF ~parsed.ok THEN Return(parsed.resp, EmptySession)
    ELSE IF ~Strptime(parsed.args.date).ok THEN Return(InvalidDate, EmptySession)
    ELSE IF QueryGet(table, id) = NoRow
    THEN Return(Response(404, Message("Transaction not found")), EmptySession)
    ELSE TransactionPutParsed(id, SessionLoad(EmptySession, id, table[id]), parsed)

TransactionPutParsesFirst(table, id, body) ==
    PutValidatedFirst(table, id, ParseArgs(transaction_parser, body))

\* PUT /transactions/<id>, up to its commit; `table` is the table as the
\* lookup finds it.
TransactionPut(table, id, body) ==
    IF QueryGet(table, id) = NoRow
    THEN Return(Response(404, Message("Transaction not found")), EmptySession)
    ELSE TransactionPutParsed(id, SessionLoad(EmptySession, id, table[id]),
                              ParseArgs(transaction_parser, body))

\* DELETE /transactions/<id>, up to its commit.
TransactionDelete(table, id) ==
    IF QueryGet(table, id) = NoRow
    THEN Return(Response(404, Message("Transaction not found")), EmptySession)
    ELSE Commit(Response(200, Message("Transaction deleted successfully")),
                SessionDelete(EmptySession, id))

(* --------------------------- CategoryResource -------------------------- *)

CategoryItem(id, row) == [id |-> id, name |-> row.name]

\* GET /categories and GET /categories/<id>.
CategoryGet(table, id) ==
    IF Truthy(id)
    THEN IF QueryGet(table, id) # NoRow
         THEN Return(Response(200, CategoryItem(id, table[id])), EmptySession)
         ELSE Return(Response(404, Message("Category not found")), EmptySession)
    ELSE Return(Response(200, Listing(LAMBDA i : CategoryItem(i, table[i]), DOMAIN table)),
                EmptySession)

\* POST /categories after parse_args (l.151-154).
CategoryPostParsed(parsed) ==
    IF ~parsed.ok THEN Return(parsed.resp, EmptySession)
    ELSE Commit(Response(201, Message("Category created successfully")),
                SessionAdd(EmptySession, [name |-> parsed.args.name]))

\* POST /categories.
CategoryPost(body) == CategoryPostParsed(ParseArgs(category_parser, body))

\* PUT /categories/<id> after parse_args (l.166-168).
CategoryPutParsed(id, session, parsed) ==
    IF ~parsed.ok THEN Return(parsed.resp, session)
    ELSE Commit(Response(200, Message("Category updated successfully")),
                SessionSet(session, id, "name", parsed.args.name))

\* PUT /categories/<id>, up to its commit.
CategoryPut(table, id, body) ==
    IF QueryGet(table, id) = NoRow
    THEN Return(Response(404, Message("Category not found")), EmptySession)
    ELSE CategoryPutParsed(id, SessionLoad(EmptySession, id, table[id]),
                           ParseArgs(category_parser, body))

\* DELETE /categories/<id>, up to its commit.  SQLite does not enforce the
\* Transaction table's foreign key (its foreign_keys pragma is off unless the
\* program turns it on), and no relationship() cascades: only the Category
\* row is marked.
CategoryDelete(table, id) ==
    IF QueryGet(table, id) = NoRow
    THEN Return(Response(404, Message("Category not found")), EmptySession)
    ELSE Commit(Response(200, Message("Category deleted successfully")),
                SessionDelete(EmptySession, id))

(* ------------------------ RegisterResource, LoginResource -------------- *)

\* User.query.filter_by(username=username).first(): the id of the user with
\* that name, or NoId.
UserByName(table, username) ==
    IF \E i \in DOMAIN table : table[i].username = username
    THEN CHOOSE i \in DOMAIN table : table[i].username = username
    ELSE NoId

UsernameExists == Response(400, Message("Username already exists"))

\* POST /register after the password is hashed (l.194-198).
RegisterPostHashed(username, hashed) ==
    IF ~hashed.ok THEN Return(ServerError, EmptySession)
    ELSE Commit(Response(201, Message("User registered successfully")),
                SessionAdd(EmptySession, [username |-> username, password |-> hashed.hash]))

\* POST /register after parse_args (l.184-198).
RegisterPostParsed(table, parsed, salt) ==
    IF ~parsed.ok THEN Return(parsed.resp, EmptySession)
    ELSE IF UserByName(table, parsed.args.username) # NoId
    THEN Return(UsernameExists, EmptySession)
    ELSE RegisterPostHashed(parsed.args.username,
                            GeneratePasswordHash(parsed.args.password, salt))

\* POST /register, up to its commit; `table` is the table as the lookup
\* finds it and `salt` the random salt generate_password_hash draws.
RegisterPost(table, body, salt) ==
    RegisterPostParsed(table, ParseArgs(register_parser, body), salt)

InvalidLogin == Response(401, Message("Invalid username or password"))

\* A login that finds the user and does not check the password.
LoginUnchecked(uid, jti) ==
    IF uid = NoId THEN InvalidLogin
    ELSE Response(200, [access_token |-> CreateAccessToken(uid, jti)])

LoginParsedUnchecked(table, parsed, jti) ==
    IF ~parsed.ok THEN parsed.resp
    ELSE LoginUnchecked(UserByName(table, parsed.args.username), jti)

LoginPostUnchecked(table, body, jti) ==
    LoginParsedUnchecked(table, ParseArgs(login_parser, body), jti)

\* POST /login after the user is looked up (l.209-219).
LoginPostUser(table, uid, password, jti) ==
    IF uid = NoId THEN InvalidLogin
    ELSE IF ~CheckPasswordHash(table[uid].password, password) THEN InvalidLogin
    ELSE Response(200, [access_token |-> CreateAccessToken(uid, jti)])

\* POST /login after parse_args (l.204-219).
LoginPostParsed(table, parsed, jti) ==
    IF ~parsed.ok THEN parsed.resp
    ELSE LoginPostUser(table, UserByName(table, parsed.args.username),
                       parsed.args.password, jti)

\* POST /login.  `jti` is the fresh token's identifier.
LoginPost(table, body, jti) == LoginPostParsed(table, ParseArgs(login_parser, body), jti)

(* --------------------------------- state ------------------------------- *)

VARIABLES
    users,            \* the User table: id -> [username, password]
    categories,       \* the Category table: id -> [name]
    transactions,     \* the Transaction table: id -> [description, amount, category_id, date]
    issued,           \* the access tokens POST /login has returned
    expired,          \* those of them whose lifetime has run out
    last,             \* the request answered last and its response
    verify_sub,       \* whether the installed PyJWT refuses a subject that is no text
                      \* (2.10 and later do; the repository pins no version)
    threads           \* the request threads whose handler is about to commit: a bag
                      \* of [request, session]

vars == <<users, categories, transactions, issued, expired, last, verify_sub, threads>>

Request(method, resource, id, body, token, resp) ==
    [method |-> method, resource |-> resource, id |-> id, body |-> body,
     token |-> token, resp |-> resp]

NoRequest == Request("", "", NoId, NoBody, NoToken, Response(0, NoBody))

\* A request thread whose handler is about to call db.session.commit():
\* the request, with the response the handler returns after the commit, and
\* the session it commits.
AtCommit(request, session) == [request |-> request, session |-> session]

\* The process after db.create_all() on a new database file: empty tables,
\* no token issued, no request being served.
Started ==
    /\ users = [i \in {} |-> 0]
    /\ categories = [i \in {} |-> 0]
    /\ transactions = [i \in {} |-> 0]
    /\ issued = {}
    /\ expired = {}
    /\ last = NoRequest
    /\ threads = EmptyBag

\* The process on a build whose PyJWT takes the integer subject of a login's
\* token, the build in which a login authorizes a protected call at all.
Init == Started /\ verify_sub = FALSE

\* The process on either build.
InitGuard == Started /\ verify_sub \in BOOLEAN

\* The table a resource's handlers work on.
TableOf(resource) ==
    CASE resource = "transactions" -> transactions
      [] resource = "categories"   -> categories
      [] resource = "register"     -> users

\* The resource's table becomes `table`; the other tables stay.
Store(resource, table) ==
    /\ transactions' = IF resource = "transactions" THEN table ELSE transactions
    /\ categories'   = IF resource = "categories"   THEN table ELSE categories
    /\ users'        = IF resource = "register"     THEN table ELSE users

\* flask_restful calls the method's handler with the route's arguments:
\* get takes the id or none, post takes none, put and delete need one.  A
\* call that does not fit raises a TypeError before the handler's body.
Callable(method, id) ==
    CASE method = "GET"  -> TRUE
      [] method = "POST" -> id = NoId
      [] OTHER           -> id # NoId

\* A handler behind @jwt_required(): the verification's error, or the call
\* of the handler with the route's arguments and what the handler does.
Protected(method, id, token, outcome) ==
    IF JwtRequired(token, expired, verify_sub) # AuthOk
    THEN Return(JwtRequired(token, expired, verify_sub), EmptySession)
    ELSE IF ~Callable(method, id)
    THEN Return(ServerError, EmptySession)
    ELSE outcome

(* -------------------------------- actions ------------------------------ *)

\* A request whose handler reads the table before it commits (PUT, DELETE,
\* POST /register), from its arrival to its return or to the point before
\* db.session.commit(): the handler returns at once (not found, bad
\* arguments, bad date, bad token), or its thread holds what it is about to
\* commit while the development server (app.run), which starts a thread for
\* every request, serves other requests.
Begin(method, resource, id, body, token, outcome) ==
    IF outcome.commit
    THEN /\ BagCardinality(threads) < MaxThreads
         /\ threads' = threads (+) SetToBag({
               AtCommit(Request(method, resource, id, body, token, outcome.resp),
                        outcome.session)})
         /\ UNCHANGED <<users, categories, transactions, issued, expired, last, verify_sub>>
    ELSE /\ Store(resource, SessionRemove(TableOf(resource), outcome.session))
         /\ last' = Request(method, resource, id, body, token, outcome.resp)
         /\ UNCHANGED <<issued, expired, verify_sub, threads>>

\* db.session.commit() of a thread and the handler's return after it, with
\* the table as the requests served meanwhile have left it.  A commit that
\* raises ends the request in 500, and the teardown drops what the session
\* held.
CommitRequest(thread) ==
    LET request == thread.request
        done    == SessionCommit(TableOf(request.resource), thread.session)
    IN  /\ BagIn(thread, threads)
        /\ Store(request.resource,
                 IF done.ok THEN done.table
                 ELSE SessionRemove(done.table, thread.session))
        /\ last' = [request EXCEPT !.resp = IF done.ok THEN @ ELSE ServerError]
        /\ threads' = threads (-) SetToBag({thread})
        /\ UNCHANGED <<issued, expired, verify_sub>>

\* A request whose handler reads the table once, or writes it without
\* reading it (GET, POST of a row), served in one step.
Serve(method, resource, id, body, token, outcome) ==
    LET done == SessionCommit(TableOf(resource), outcome.session)
        resp == IF outcome.commit /\ ~done.ok THEN ServerError ELSE outcome.resp
    IN  /\ outcome.commit => DOMAIN done.table \subseteq 1..MaxId
        /\ Store(resource,
                 IF outcome.commit /\ done.ok THEN done.table
                 ELSE SessionRemove(TableOf(resource), outcome.session))
        /\ last' = Request(method, resource, id, body, token, resp)
        /\ UNCHANGED <<issued, expired, verify_sub, threads>>

\* `fill` is the platform's way of writing %Y (see Strftime).
GetTransaction(token, id, fill) ==
    Serve("GET", "transactions", id, NoBody, token,
          Protected("GET", id, token, TransactionGet(transactions, id, fill)))

PostTransaction(token, id, body) ==
    Serve("POST", "transactions", id, body, token,
          Protected("POST", id, token, TransactionPost(body)))

PutTransaction(token, id, body) ==
    Begin("PUT", "transactions", id, body, token,
          Protected("PUT", id, token, TransactionPut(transactions, id, body)))

DeleteTransaction(token, id) ==
    Begin("DELETE", "transactions", id, NoBody, token,
          Protected("DELETE", id, token, TransactionDelete(transactions, id)))

GetCategory(token, id) ==
    Serve("GET", "categories", id, NoBody, token,
          Protected("GET", id, token, CategoryGet(categories, id)))

PostCategory(token, id, body) ==
    Serve("POST", "categories", id, body, token,
          Protected("POST", id, token, CategoryPost(body)))

PutCategory(token, id, body) ==
    Begin("PUT", "categories", id, body, token,
          Protected("PUT", id, token, CategoryPut(categories, id, body)))

DeleteCategory(token, id) ==
    Begin("DELETE", "categories", id, NoBody, token,
          Protected("DELETE", id, token, CategoryDelete(categories, id)))

\* POST /register.
Register(body, salt) ==
    Begin("POST", "register", NoId, body, NoToken, RegisterPost(users, body, salt))

\* POST /login.
Login(body) ==
    LET resp == LoginPost(users, body, Cardinality(issued) + 1)
    IN  /\ resp.status = 200 => Cardinality(issued) < MaxTokens
        /\ issued' = IF resp.status = 200 THEN issued \cup {resp.body.access_token}
                     ELSE issued
        /\ last' = Request("POST", "login", NoId, body, NoToken, resp)
        /\ UNCHANGED <<users, categories, transactions, expired, verify_sub, threads>>

\* Time passes the end of a token's lifetime (flask_jwt_extended's default
\* JWT_ACCESS_TOKEN_EXPIRES; the program sets none).
ExpireToken(token) ==
    /\ token \in issued \ expired
    /\ expired' = expired \cup {token}
    /\ UNCHANGED <<users, categories, transactions, issued, last, verify_sub, threads>>

(* ------------------------------ the clients ---------------------------- *)

Date_2024_01_05 == <<"2", "0", "2", "4", "-", "0", "1", "-", "0", "5">>
Date_2023_12_31 == <<"2", "0", "2", "3", "-", "1", "2", "-", "3", "1">>
Date_2024_13_01 == <<"2", "0", "2", "4", "-", "1", "3", "-", "0", "1">>
Date_2023_02_29 == <<"2", "0", "2", "3", "-", "0", "2", "-", "2", "9">>
Date_2024_1_5   == <<"2", "0", "2", "4", "-", "1", "-", "5">>
Date_0999_01_01 == <<"0", "9", "9", "9", "-", "0", "1", "-", "0", "1">>

\* 2024-01-05 with the year in DEVANAGARI digits.
Date_2024_01_05_Devanagari ==
    <<"U+0968", "U+0966", "U+0968", "U+096A", "-", "0", "1", "-", "0", "5">>

Text_lunch   == <<"l", "u", "n", "c", "h">>
Text_rent    == <<"r", "e", "n", "t">>
Text_food    == <<"f", "o", "o", "d">>
Text_housing == <<"h", "o", "u", "s", "i", "n", "g">>
Text_alice   == <<"a", "l", "i", "c", "e">>
Text_bob     == <<"b", "o", "b">>
Text_pw1     == <<"p", "w", "1">>
Text_pw2     == <<"p", "w", "2">>

Lunch == [description |-> Str(Text_lunch), amount |-> Num(15000), category_id |-> Num(1),
          date |-> Str(Date_2024_01_05)]
Rent  == [description |-> Str(Text_rent), amount |-> Num(2500000), category_id |-> Num(2),
          date |-> Str(Date_2023_12_31)]

\* Transaction bodies with every field in its JSON type, whose date is a
\* calendar date written as YYYY-MM-DD.
ValidTransactionBodies == {Lunch, Rent, [Lunch EXCEPT !.date = Str(Date_0999_01_01)]}

\* Bodies with every field whose date is no calendar date.
BadDateBodies ==
    {[Rent  EXCEPT !.date = Str(Date_2024_13_01)],
     [Lunch EXCEPT !.date = Str(Date_2023_02_29)]}

\* Bodies that lack a field, or have one that does not convert to its type.
BadArgumentBodies ==
    {[f \in {"description", "category_id", "date"} |-> Lunch[f]],
     [Lunch EXCEPT !.amount = Str(<<"a", "b", "c">>)],
     [Rent  EXCEPT !.category_id = Str(<<"x">>)]}

\* Bodies the parser converts: numbers sent as texts, a date sent as a
\* number, a date with digits of another script, an unpadded date.
ConvertedBodies ==
    {[Lunch EXCEPT !.amount = Str(<<"1", "5", "0", "0", "0", "\n">>),
                   !.category_id = Str(<<"\t", "U+0967">>)],
     [Lunch EXCEPT !.date = Num(20240105)],
     [Lunch EXCEPT !.date = Str(Date_2024_01_05_Devanagari)],
     [Lunch EXCEPT !.date = Str(Date_2024_1_5)]}

\* The transaction bodies the clients send.
TransactionBodies ==
    ValidTransactionBodies \cup BadDateBodies \cup BadArgumentBodies \cup ConvertedBodies

CategoryBodies == {[name |-> Str(Text_food)], [name |-> Str(Text_housing)], NoBody}

Usernames == {Text_alice, Text_bob}
Passwords == {Text_pw1, Text_pw2}
Salts == {"s1", "s2"}

Credentials(username, password) == [username |-> Str(username), password |-> Str(password)]

CredentialBodies ==
    {Credentials(u, p) : u \in Usernames, p \in Passwords}
        \cup {[username |-> Str(Text_alice)]}

Alice == Credentials(Text_alice, Text_pw1)

\* The ids the routes' <int:...> converters accept, as far as the clients go.
RouteIds == 0..MaxId

\* What a client can put in the Authorization header: nothing, a token it
\* signed itself without the secret, or a token the service returned.
Presentable == {NoToken, ForgedToken} \cup issued

(* --------------------------- the specifications ------------------------ *)

\* The bodies of the PUT requests on /transactions: a valid one, one that
\* differs from a stored row in the date only, one with a date that is no
\* calendar date, one that lacks a field and one with a field that does not
\* convert.
PutBodies ==
    {Rent, [Lunch EXCEPT !.date = Str(Date_0999_01_01)],
     [Rent EXCEPT !.date = Str(Date_2024_13_01)],
     [f \in {"description", "category_id", "date"} |-> Lunch[f]],
     [Rent EXCEPT !.category_id = Str(<<"x">>)]}

\* One client that registers, logs in once and then sends the requests of
\* the two resources with the token it got, without waiting for the answer
\* of one request before it sends the next.  It creates a row only in an
\* empty table.
Next ==
    \/ Register(Alice, "s1")
    \/ issued = {} /\ Login(Alice)
    \/ \E thread \in BagToSet(threads) : CommitRequest(thread)
    \/ \E token \in issued, id \in RouteIds \cup {NoId}, fill \in BOOLEAN :
          GetTransaction(token, id, fill)
    \/ \E token \in issued, body \in TransactionBodies :
          DOMAIN transactions = {} /\ PostTransaction(token, NoId, body)
    \/ \E token \in issued, id \in RouteIds, body \in PutBodies :
          PutTransaction(token, id, body)
    \/ \E token \in issued, id \in RouteIds : DeleteTransaction(token, id)
    \/ \E token \in issued, id \in RouteIds \cup {NoId} : GetCategory(token, id)
    \/ \E token \in issued, body \in CategoryBodies :
          DOMAIN categories = {} /\ PostCategory(token, NoId, body)
    \/ \E token \in issued, id \in RouteIds, body \in CategoryBodies :
          PutCategory(token, id, body)
    \/ \E token \in issued, id \in RouteIds : DeleteCategory(token, id)

Spec == Init /\ [][Next]_vars

\* No request is between its lookup and its commit.
Quiet == threads = EmptyBag

\* Clients that send every method of the two resources, on the route with an
\* id and on the route without one, with no token, with a token of their own
\* making, and with tokens the service issued, before and after these expire
\* (a token may expire while the request that carries it is served), to a
\* process on either build.  They wait for the answer of one request before
\* they send the next, and create a row only in an empty table.
NextGuard ==
    \/ Quiet /\ Register(Alice, "s1")
    \/ Quiet /\ Login(Alice)
    \/ \E thread \in BagToSet(threads) : CommitRequest(thread)
    \/ \E token \in issued : ExpireToken(token)
    \/ \E token \in Presentable, id \in RouteIds \cup {NoId} :
          Quiet /\ GetTransaction(token, id, TRUE)
    \/ \E token \in Presentable, id \in RouteIds \cup {NoId},
          body \in {Lunch, [Rent EXCEPT !.date = Str(Date_2024_13_01)]} :
          Quiet /\ DOMAIN transactions = {} /\ PostTransaction(token, id, body)
    \/ \E token \in Presentable, id \in RouteIds \cup {NoId} :
          Quiet /\ PutTransaction(token, id, Rent)
    \/ \E token \in Presentable, id \in RouteIds \cup {NoId} :
          Quiet /\ DeleteTransaction(token, id)
    \/ \E token \in Presentable, id \in RouteIds \cup {NoId} :
          Quiet /\ GetCategory(token, id)
    \/ \E token \in Presentable, id \in RouteIds \cup {NoId},
          body \in {[name |-> Str(Text_food)], NoBody} :
          Quiet /\ DOMAIN categories = {} /\ PostCategory(token, id, body)
    \/ \E token \in Presentable, id \in RouteIds \cup {NoId} :
          Quiet /\ PutCategory(token, id, [name |-> Str(Text_housing)])
    \/ \E token \in Presentable, id \in RouteIds \cup {NoId} :
          Quiet /\ DeleteCategory(token, id)

SpecGuard == InitGuard /\ [][NextGuard]_vars

\* Clients that create, update and delete rows of the two resources at the
\* same time, with every kind of body.  They create a row only in an empty
\* table.
NextPut ==
    \/ Register(Alice, "s1")
    \/ issued = {} /\ Login(Alice)
    \/ \E thread \in BagToSet(threads) : CommitRequest(thread)
    \/ \E token \in issued : DOMAIN transactions = {} /\ PostTransaction(token, NoId, Lunch)
    \/ \E token \in issued, id \in RouteIds,
          body \in {Rent} \cup BadDateBodies \cup BadArgumentBodies :
          PutTransaction(token, id, body)
    \/ \E token \in issued, id \in RouteIds : DeleteTransaction(token, id)
    \/ \E token \in issued :
          DOMAIN categories = {} /\ PostCategory(token, NoId, [name |-> Str(Text_food)])
    \/ \E token \in issued, id \in RouteIds, body \in {[name |-> Str(Text_housing)], NoBody} :
          PutCategory(token, id, body)
    \/ \E token \in issued, id \in RouteIds : DeleteCategory(token, id)

SpecPut == Init /\ [][NextPut]_vars

\* Clients that register and log in at the same time.
NextAuth ==
    \/ \E body \in CredentialBodies, salt \in Salts : Register(body, salt)
    \/ \E thread \in BagToSet(threads) : CommitRequest(thread)
    \/ \E body \in CredentialBodies : Login(body)

SpecAuth == Init /\ [][NextAuth]_vars

\* Clients that register at the same time.
NextRace ==
    \/ \E body \in {Alice, Credentials(Text_alice, Text_pw2),
                    Credentials(Text_bob, Text_pw1),
                    [username |-> Str(Text_alice)]} :
          Register(body, "s1")
    \/ \E thread \in BagToSet(threads) : CommitRequest(thread)

SpecRace == Init /\ [][NextRace]_vars

(* ------------------------------- the claims ---------------------------- *)

ProtectedResources == {"transactions", "categories"}

NotFound(resource) ==
    Response(404, Message(IF resource = "transactions" THEN "Transaction not found"
                          ELSE "Category not found"))

StoresUnchanged == UNCHANGED <<users, categories, transactions>>

\* The step answers a request: last' is the request and its response.  (The
\* other steps are a handler reaching its commit and a token expiring.)
Answered == BagCardinality(threads') <= BagCardinality(threads) /\ expired' = expired

\* The step answers a request whose handler returns without a commit of its
\* own thread: the tables are as the handler's lookup found them.
AnsweredAtOnce == threads' = threads /\ expired' = expired

\* The step answers a request with the return after its commit.
AnsweredAfterCommit == BagCardinality(threads') < BagCardinality(threads)

\* The step takes the handler of this thread's request to its commit.
ReachesCommit(thread) == CopiesIn(thread, threads') > CopiesIn(thread, threads)

\* The response is the token verification's, not a handler's.
AuthError(resp) == resp.status \in {401, 422}

\* C1, as claimed: for every method on /transactions and /categories, on the
\* route with an id and on the route without one, only a request that carries
\* a token a successful login has returned, not expired when the request
\* arrives (the valid, signed, non-expired token of the specification),
\* gets to the handler; every other request is answered 401 and leaves the
\* three tables as they were; and a request with such a token is never
\* refused by the verification, whatever the method.
C1_TokenRequired ==
    [][/\ (AnsweredAtOnce /\ last'.resource \in ProtectedResources)
             => IF last'.token \in issued \ expired
                THEN ~AuthError(last'.resp)
                ELSE last'.resp.status = 401 /\ StoresUnchanged
       /\ \A thread \in BagToSet(threads') :
             (ReachesCommit(thread) /\ thread.request.resource \in ProtectedResources)
                => thread.request.token \in issued \ expired
       /\ (AnsweredAfterCommit /\ last'.resource \in ProtectedResources)
             => ~AuthError(last'.resp)]_vars

\* C2, as claimed: an authenticated GET on /transactions/<id> or
\* /categories/<id>, for an id the route accepts and the table does not
\* hold, is answered 404 with the not-found message.
C2_GetAbsentIs404 ==
    (/\ last.method = "GET"
     /\ last.resource \in ProtectedResources
     /\ last.id \in RouteIds
     /\ last.token \in issued \ expired
     /\ last.id \notin DOMAIN TableOf(last.resource))
        => last.resp.status = 404 /\ last.resp = NotFound(last.resource)

\* C3: an authenticated PUT for an id the table does not hold when the
\* handler looks the row up is answered 404 whatever the body (valid, a field
\* missing or not converting, a date that is no calendar date), and leaves
\* every table as it was; no PUT reaches its commit for an id that its
\* lookup did not find.
C3_PutAbsentIs404 ==
    [][/\ (/\ AnsweredAtOnce
           /\ last'.method = "PUT"
           /\ last'.resource \in ProtectedResources
           /\ last'.token \in issued \ expired
           /\ last'.id \notin DOMAIN TableOf(last'.resource))
             => /\ last'.resp.status = 404
                /\ last'.resp = NotFound(last'.resource)
                /\ StoresUnchanged
       /\ \A thread \in BagToSet(threads') :
             (ReachesCommit(thread) /\ thread.request.method = "PUT")
                => thread.request.id \in DOMAIN TableOf(thread.request.resource)]_vars

\* C3's case: a PUT without the amount field on an absent transaction id was
\* answered 404 while the table holds another row and another request is at
\* its commit.
C3_Witness ==
    /\ last.method = "PUT" /\ last.resource = "transactions"
    /\ last.resp.status = 404
    /\ "amount" \notin DOMAIN last.body
    /\ DOMAIN transactions # {}
    /\ threads # EmptyBag

\* The table without the row of one id.
Without(table, id) == [i \in DOMAIN table \ {id} |-> table[i]]

\* C4, as claimed: an authenticated DELETE is answered 200 or 404 and leaves
\* the other tables as they were; answered 200 it has removed the row of its
\* id and no other, answered 404 it has changed nothing; and a DELETE
\* answered right after a DELETE of the same id was answered 200, no create
\* in between, is answered 404.
C4_DeleteTwice ==
    [][(/\ Answered
        /\ last'.method = "DELETE"
        /\ last'.resource \in ProtectedResources
        /\ last'.token \in issued)
          => LET table == TableOf(last'.resource)
                 after == IF last'.resource = "transactions" THEN transactions'
                          ELSE categories'
                 other == IF last'.resource = "transactions"
                          THEN UNCHANGED <<users, categories>>
                          ELSE UNCHANGED <<users, transactions>>
                 again == /\ last.method = "DELETE"
                          /\ last.resource = last'.resource
                          /\ last.id = last'.id
                          /\ last.resp.status = 200
             IN  /\ other
                 /\ last'.resp.status \in {200, 404}
                 /\ last'.resp.status = 200 => after = Without(table, last'.id)
                 /\ last'.resp.status = 404 =>
                       last'.resp = NotFound(last'.resource) /\ after = table
                 /\ again => last'.resp.status = 404]_vars

\* The text a JSON value of a str argument stands for.
TextOf(v) == ConvertStr(v).value

\* C5, as claimed: a POST /register with a username no user has is answered
\* 201 and adds one user with that name and a hash of that password; one
\* with a username a user has is answered 400 and leaves the table as it
\* was; no step changes or removes a user, and no two users share a
\* username.
C5_UniqueUsernames ==
    [][/\ \A i \in DOMAIN users : i \in DOMAIN users' /\ users'[i] = users[i]
       /\ \A i, j \in DOMAIN users' : users'[i].username = users'[j].username => i = j
       /\ (/\ Answered
           /\ last'.resource = "register"
           /\ DOMAIN last'.body = {"username", "password"})
             => IF \E i \in DOMAIN users : users[i].username = TextOf(last'.body.username)
                THEN last'.resp.status = 400 /\ last'.resp = UsernameExists
                     /\ users' = users
                ELSE /\ last'.resp.status = 201
                     /\ \E n \in DOMAIN users' \ DOMAIN users :
                           /\ DOMAIN users' = DOMAIN users \cup {n}
                           /\ users'[n].username = TextOf(last'.body.username)
                           /\ CheckPasswordHash(users'[n].password,
                                                TextOf(last'.body.password))]_vars

\* The password a stored hash was made from (the model's hash keeps it; the
\* program's does not).
RegisteredPassword(pw_hash) == pw_hash.digest[2]

\* C6: a POST /login with username and password is answered 200 with a new
\* access token exactly when a user has that username and registered with
\* that password; otherwise, unknown username or wrong password alike, the
\* answer is 401 with "Invalid username or password" and no token is issued;
\* either way the tables are as they were.
C6_LoginIffPasswordMatches ==
    [][(/\ Answered
        /\ last'.resource = "login"
        /\ DOMAIN last'.body = {"username", "password"})
          => /\ StoresUnchanged
             /\ IF \E i \in DOMAIN users :
                      /\ users[i].username = TextOf(last'.body.username)
                      /\ RegisteredPassword(users[i].password) = TextOf(last'.body.password)
                THEN /\ last'.resp.status = 200
                     /\ issued' = issued \cup {last'.resp.body.access_token}
                     /\ last'.resp.body.access_token \notin issued
                     /\ users[last'.resp.body.access_token.sub].username
                           = TextOf(last'.body.username)
                ELSE /\ last'.resp.status = 401
                     /\ last'.resp = Response(401, Message("Invalid username or password"))
                     /\ issued' = issued]_vars

\* C6's case: a login with a stored username and another password than the
\* registered one was answered 401.
C6_Witness ==
    /\ last.resource = "login"
    /\ last.resp.status = 401
    /\ DOMAIN last.body = {"username", "password"}
    /\ \E i \in DOMAIN users :
          /\ users[i].username = TextOf(last.body.username)
          /\ RegisteredPassword(users[i].password) # TextOf(last.body.password)

\* C7, as claimed: an authenticated POST /transactions with a valid body is
\* answered 201, and the GET that follows it on the id of the new row is
\* answered 200 with the body's description, amount, category_id and date.
C7_PostThenGet ==
    [][(/\ last.method = "POST" /\ last.resource = "transactions"
        /\ last.token \in issued \ expired
        /\ last.body \in ValidTransactionBodies
        /\ last'.method = "GET" /\ last'.resource = "transactions"
        /\ last'.token \in issued \ expired
        /\ DOMAIN transactions # {}
        /\ last'.id = Max(DOMAIN transactions))
          => /\ last.resp.status = 201
             /\ last'.resp.status = 200
             /\ last'.resp.body.description = last.body.description.str
             /\ last'.resp.body.amount = last.body.amount.num
             /\ last'.resp.body.category_id = last.body.category_id.num
             /\ last'.resp.body.date = last.body.date.str]_vars

\* C8, as claimed: every POST /register ends with 201 or, for a username
\* that is taken, 400 and "Username already exists", never with an unhandled
\* error, also when the requests' steps interleave; and no two users share a
\* username.
C8_RegisterIsAtomic ==
    /\ (last.resource = "register" /\ DOMAIN last.body = {"username", "password"})
          => \/ last.resp.status = 201
             \/ last.resp.status = 400 /\ last.resp = UsernameExists
    /\ \A i, j \in DOMAIN users : users[i].username = users[j].username => i = j

\* C9, as claimed: the category_id of every stored transaction is the id of
\* a stored category.
C9_CategoryExists ==
    \A i \in DOMAIN transactions : transactions[i].category_id \in DOMAIN categories

\* The row a body the handlers accept stands for.
RowOf(body) ==
    LET args == ParseArgs(transaction_parser, body).args
    IN  [description |-> args.description, amount |-> args.amount,
         category_id |-> args.category_id, date |-> Strptime(args.date).date]

\* The rows that are some accepted body's, field for field.
WholeRows == {RowOf(b) : b \in {a \in TransactionBodies \cup PutBodies : TransactionPost(a).commit}}

\* C10, as claimed: an authenticated PUT on a stored transaction with a date
\* that is no calendar date is answered 400 and leaves the table as it was;
\* with a valid body it is answered 200 and the row has the body's four
\* fields, the other rows being as they were; and after no request does the
\* table hold a row with fields of two bodies.
C10_PutAllOrNothing ==
    [][/\ \A i \in DOMAIN transactions' : transactions'[i] \in WholeRows
       /\ (/\ Answered
           /\ last'.method = "PUT" /\ last'.resource = "transactions"
           /\ last'.token \in issued
           /\ last'.id \in DOMAIN transactions)
             => /\ last'.body \in BadDateBodies
                      => last'.resp.status = 400 /\ transactions' = transactions
                /\ last'.body \in ValidTransactionBodies
                      => /\ last'.resp.status = 200
                         /\ DOMAIN transactions' = DOMAIN transactions
                         /\ transactions'[last'.id] = RowOf(last'.body)
                         /\ \A i \in DOMAIN transactions \ {last'.id} :
                               transactions'[i] = transactions[i]]_vars

=============================================================================
